---- MODULE Spec2Model ----
(***************************************************************************)
(* The chat-completions gateway of src/src/api_orchestrator/main.py:       *)
(* request validation, model selection, the Cosmos-backed response cache,  *)
(* backend dispatch with retry and backoff, and the main() handler that    *)
(* composes them.                                                          *)
(*                                                                         *)
(* A JSON value is a record of one field, named by its python type.          *)
(* Floats are carried in hundredths (JFloat(70) is 0.7).  A message content *)
(* string is abstracted to what the code reads of it: its length and the   *)
(* technical terms its lower-cased text contains.                          *)
(***************************************************************************)
EXTENDS Integers, Sequences, FiniteSets, TLC

VARIABLES
    now,            \* wall clock, in seconds (time.time(), datetime.utcnow())
    store,          \* items of the Cosmos container inferencecache/responses
    cosmos_account, \* os.environ COSMOS_ACCOUNT is set
    served,         \* number of invocations of main started so far
    prev,           \* the invocation that returned before the current one, if it stored its response
    pc,             \* position of each worker's invocation of main
    req,            \* the HttpRequest the invocation was given
    body,           \* main's local `body`
    request_id,     \* main's local `request_id`
    start_time,     \* main's local `start_time`
    selected_model, \* main's local `selected_model`
    cached,         \* main's local `cached`
    response,       \* main's local `response`
    attempt,        \* forward_to_backend's loop variable
    posts,          \* what each session.post of the invocation ended in, in order
    sleeps,         \* arguments of the asyncio.sleep calls of the invocation
    trace,          \* calls the invocation has made and faults raised in them, in order
    reply,          \* the HttpResponse main returned
    _initialized,   \* SecretsManager._initialized
    _client,        \* SecretsManager._client is a SecretClient (FALSE: None or not yet set)
    _secrets_cache, \* SecretsManager._secrets_cache
    secret,         \* the last call of get_secret: its inputs and what it returned
    health          \* the last call of the health endpoint: its inputs and its HttpResponse

\* The invocations of the orchestrator's main and what they share.
orchestrator == <<now, store, cosmos_account, served, prev, pc, req, body, request_id,
                  start_time, selected_model, cached, response, attempt, posts,
                  sleeps, trace, reply>>

\* The singleton of SecretsManager.
secrets_manager == <<_initialized, _client, _secrets_cache, secret>>

vars == <<orchestrator, secrets_manager, health>>

---------------------------------------------------------------------------
\* Bounds of the model.

\* Number of main() invocations in one run.
NumRequests == 2

\* Number of workers that can each run one invocation of main at a time.
NumWorkers == 2

---------------------------------------------------------------------------
\* JSON values.

JNull == [null |-> 0]
JStr(s) == [str |-> s]
JInt(n) == [int |-> n]
JFloat(h) == [float |-> h]
JBool(b) == [bool |-> b]
JList(s) == [list |-> s]
JDict(f) == [dict |-> f]
\* A content string of `chars` characters whose lower-cased text contains `terms`.
JText(chars, terms) == [text |-> [chars |-> chars, terms |-> terms]]

\* The python type of a JSON value, and its payload.
Type(x) == LET k == CHOOSE k \in DOMAIN x : TRUE IN IF k = "text" THEN "str" ELSE k
Val(x) == x[CHOOSE k \in DOMAIN x : TRUE]

\* dict.get(k, default)
Get(d, k, default) == IF k \in DOMAIN d THEN d[k] ELSE default

\* Python truth value of a JSON value.
Truthy(x) ==
    CASE Type(x) = "null" -> FALSE
      [] Type(x) = "bool" -> Val(x)
      [] Type(x) \in {"int", "float"} -> Val(x) # 0
      [] Type(x) = "str" -> IF "text" \in DOMAIN x THEN Val(x).chars # 0 ELSE Val(x) # ""
      [] Type(x) = "list" -> Val(x) # <<>>
      [] Type(x) = "dict" -> DOMAIN Val(x) # {}

\* isinstance(x, (int, float)): bool is a subclass of int.
IsNumber(x) == Type(x) \in {"int", "float", "bool"}
\* isinstance(x, int)
IsInt(x) == Type(x) \in {"int", "bool"}
\* The numeric value, in hundredths.
Num(x) ==
    CASE Type(x) = "int" -> Val(x) * 100
      [] Type(x) = "float" -> Val(x)
      [] Type(x) = "bool" -> IF Val(x) THEN 100 ELSE 0

\* Python == between JSON values: numbers compare by value, the rest by type and payload.
PyEq(x, y) ==
    IF IsNumber(x) /\ IsNumber(y) THEN Num(x) = Num(y)
    ELSE x = y

Hashable(x) == Type(x) \notin {"list", "dict"}

---------------------------------------------------------------------------
\* MODELS

ModelIds == {"mixtral-8x7b", "llama-3-70b", "phi-3-mini"}

context_length(m) ==
    CASE m = "mixtral-8x7b" -> 32768
      [] m = "llama-3-70b" -> 8192
      [] m = "phi-3-mini" -> 4096

\* `x in MODELS` for a hashable x.
InModels(x) == "str" \in DOMAIN x /\ x.str \in ModelIds

---------------------------------------------------------------------------
\* Exceptions, as values.

NoExc == [exc |-> "none", msg |-> ""]
ValueError(m) == [exc |-> "ValueError", msg |-> m]
TypeError(m) == [exc |-> "TypeError", msg |-> m]
AttributeError(m) == [exc |-> "AttributeError", msg |-> m]

RECURSIVE SumSeq(_)
SumSeq(s) == IF s = <<>> THEN 0 ELSE Head(s) + SumSeq(Tail(s))

Roles == {"system", "user", "assistant", "function"}

\* The check made of message i (0-based) in the loop of validate_chat_request.
message_error(i, msg) ==
    IF Type(msg) # "dict" THEN
        ValueError("message " \o ToString(i) \o " must be a dictionary")
    ELSE IF "role" \notin DOMAIN msg.dict \/ "content" \notin DOMAIN msg.dict THEN
        ValueError("message " \o ToString(i) \o " must have 'role' and 'content' fields")
    ELSE IF ~("str" \in DOMAIN msg.dict["role"] /\ msg.dict["role"].str \in Roles) THEN
        ValueError("message " \o ToString(i) \o " has invalid role")
    ELSE IF Type(msg.dict["content"]) # "str" THEN
        ValueError("message " \o ToString(i) \o " content must be a string")
    ELSE NoExc

\* messages_error reporting the last offender.
messages_error_last(msgs) ==
    LET bad == {i \in 1..Len(msgs) : message_error(i - 1, msgs[i]).exc # "none"}
    IN IF bad = {} THEN NoExc
       ELSE LET i == CHOOSE j \in bad : \A k \in bad : j >= k
            IN message_error(i - 1, msgs[i])

\* The first error of the loop over the messages (list order), if any.
messages_error(msgs) ==
    LET bad == {i \in 1..Len(msgs) : message_error(i - 1, msgs[i]).exc # "none"}
    IN IF bad = {} THEN NoExc
       ELSE LET i == CHOOSE j \in bad : \A k \in bad : j <= k
            IN message_error(i - 1, msgs[i])

\* sum(len(m.get("content", "")) for m in messages), contents being strings.
total_chars(msgs) ==
    SumSeq([i \in 1..Len(msgs) |->
              IF "content" \in DOMAIN msgs[i].dict THEN msgs[i].dict["content"].text.chars ELSE 0])

\* validate_chat_request(request): the exception it raises, or NoExc.
validate_chat_request(request) ==
    IF Type(request) # "dict" THEN AttributeError("object has no attribute 'get'")
    ELSE
    LET r == request.dict
        messages == Get(r, "messages", JList(<<>>))
        model == Get(r, "model", JNull)
        temp == Get(r, "temperature", JFloat(100))
        max_tokens == Get(r, "max_tokens", JInt(256))
        top_p == Get(r, "top_p", JFloat(100))
    IN
    IF Type(messages) # "list" \/ ~Truthy(messages) THEN
        ValueError("messages must be a non-empty list")
    ELSE IF messages_error(messages.list).exc # "none" THEN
        messages_error(messages.list)
    ELSE IF Truthy(model) /\ ~Hashable(model) THEN
        TypeError("unhashable type")
    ELSE IF Truthy(model) /\ ~InModels(model) /\ ~PyEq(model, JStr("auto")) THEN
        ValueError("model is not supported")
    ELSE IF ~IsNumber(temp) \/ ~(0 <= Num(temp) /\ Num(temp) <= 200) THEN
        ValueError("temperature must be between 0.0 and 2.0")
    ELSE IF ~IsInt(max_tokens) \/ Num(max_tokens) < 100 \/ Num(max_tokens) > 409600 THEN
        ValueError("max_tokens must be between 1 and 4096")
    ELSE IF ~IsNumber(top_p) \/ ~(0 <= Num(top_p) /\ Num(top_p) <= 100) THEN
        ValueError("top_p must be between 0.0 and 1.0")
    ELSE
    LET estimated_tokens == total_chars(messages.list) \div 4
        chosen == IF PyEq(model, JStr("auto")) THEN JStr("mixtral-8x7b") ELSE model
        max_context == IF InModels(chosen) THEN context_length(chosen.str)
                       ELSE context_length("mixtral-8x7b")
    IN
    IF ~Hashable(chosen) THEN TypeError("unhashable type")
    ELSE IF estimated_tokens > max_context THEN
        ValueError("estimated tokens exceed model context length")
    ELSE NoExc

---------------------------------------------------------------------------
\* ModelRouter.select_model

technical_terms ==
    {"function", "class", "import", "def", "api", "database", "algorithm"}

\* The technical terms found in " ".join(content.lower()): no term holds a
\* space, so a term is found in the join iff it is found in one content.
content_terms(msgs) ==
    UNION {msgs[i].dict["content"].text.terms \cap technical_terms : i \in 1..Len(msgs)}

\* select_model with thresholds that are not strict.
select_model_not_strict(requested_model, msgs) ==
    IF ~PyEq(requested_model, JStr("auto")) THEN requested_model
    ELSE
    LET estimated_tokens == total_chars(msgs) \div 4
        complexity_score == Cardinality(content_terms(msgs))
    IN
    IF estimated_tokens >= 4000 \/ complexity_score >= 2 THEN JStr("mixtral-8x7b")
    ELSE IF estimated_tokens >= 2000 \/ complexity_score >= 0 THEN JStr("llama-3-70b")
    ELSE JStr("phi-3-mini")

\* select_model keeping the mid-tier model up to 16000 estimated tokens.
select_model_wide_mid_tier(requested_model, msgs) ==
    IF ~PyEq(requested_model, JStr("auto")) THEN requested_model
    ELSE
    LET estimated_tokens == total_chars(msgs) \div 4
        complexity_score == Cardinality(content_terms(msgs))
    IN
    IF estimated_tokens > 16000 \/ complexity_score > 2 THEN JStr("mixtral-8x7b")
    ELSE IF estimated_tokens > 2000 \/ complexity_score > 0 THEN JStr("llama-3-70b")
    ELSE JStr("phi-3-mini")

select_model(requested_model, msgs) ==
    IF ~PyEq(requested_model, JStr("auto")) THEN requested_model
    ELSE
    LET estimated_tokens == total_chars(msgs) \div 4
        complexity_score == Cardinality(content_terms(msgs))
    IN
    IF estimated_tokens > 4000 \/ complexity_score > 2 THEN JStr("mixtral-8x7b")
    ELSE IF estimated_tokens > 2000 \/ complexity_score > 0 THEN JStr("llama-3-70b")
    ELSE JStr("phi-3-mini")

---------------------------------------------------------------------------
\* _generate_cache_key with `stream` among the hashed fields.
_generate_cache_key_with_stream(request) ==
    [model |-> Get(request, "model", JNull),
     messages |-> Get(request, "messages", JNull),
     temperature |-> Get(request, "temperature", JFloat(100)),
     max_tokens |-> Get(request, "max_tokens", JInt(256)),
     top_p |-> Get(request, "top_p", JFloat(100)),
     frequency_penalty |-> Get(request, "frequency_penalty", JFloat(0)),
     presence_penalty |-> Get(request, "presence_penalty", JFloat(0)),
     stop |-> Get(request, "stop", JNull),
     functions |-> Get(request, "functions", JNull),
     tools |-> Get(request, "tools", JNull),
     stream |-> Get(request, "stream", JBool(FALSE))]

\* CacheManager._generate_cache_key: the canonical data whose sorted-key JSON
\* text is hashed.  The digest is taken to be injective on that text, and the
\* text keeps ints, floats and booleans apart ("1", "1.0", "true").
_generate_cache_key(request) ==
    [model |-> Get(request, "model", JNull),
     messages |-> Get(request, "messages", JNull),
     temperature |-> Get(request, "temperature", JFloat(100)),
     max_tokens |-> Get(request, "max_tokens", JInt(256)),
     top_p |-> Get(request, "top_p", JFloat(100)),
     frequency_penalty |-> Get(request, "frequency_penalty", JFloat(0)),
     presence_penalty |-> Get(request, "presence_penalty", JFloat(0)),
     stop |-> Get(request, "stop", JNull),
     functions |-> Get(request, "functions", JNull),
     tools |-> Get(request, "tools", JNull)]

---------------------------------------------------------------------------
\* The response cache: CacheManager over the Cosmos container.

\* "ttl": 3600 of the item written by set_cached_response.
ttl == 3600

\* An item is served by the container until its time to live has passed,
\* whether or not the container has removed it (the store never does here).
Live(item) == now <= item.created_at + item.ttl

\* partition_key with the fallback value for every request.
partition_key_default(request) == JStr("default")

\* partition_key = request.get("model", "default")
partition_key(request) == Get(request, "model", JStr("default"))

\* container.read_item(item=cache_key, partition_key=partition_key): the items found.
read_item(request) ==
    {i \in store : /\ i.id = _generate_cache_key(request)
                   /\ i.modelId = partition_key(request)
                   /\ Live(i)}

\* cache_item with a time to live a thousand times as long.
cache_item_long_ttl(request, resp) ==
    [id |-> _generate_cache_key(request),
     modelId |-> partition_key(request),
     response |-> resp,
     created_at |-> now,
     ttl |-> ttl * 1000]

\* The item set_cached_response upserts.
cache_item(request, resp) ==
    [id |-> _generate_cache_key(request),
     modelId |-> partition_key(request),
     response |-> resp,
     created_at |-> now,
     ttl |-> ttl]

\* upsert_item adding the item next to the one it should replace.
upsert_item_insert(item) == store \cup {item}

\* container.upsert_item(item): the container afterwards.
upsert_item(item) ==
    {i \in store : ~(i.id = item.id /\ i.modelId = item.modelId)} \cup {item}

---------------------------------------------------------------------------
\* Inputs: the requests sent to the gateway and the replies of the backend.

InvalidJson == [invalid_json |-> 0]

Hello == JDict([role |-> JStr("user"), content |-> JText(5, {})])
Hi == JDict([role |-> JStr("user"), content |-> JText(2, {})])

\* The request of tests/conftest.py.
FixtureBody ==
    JDict([model |-> JStr("mixtral-8x7b"), messages |-> JList(<<Hello>>),
           temperature |-> JFloat(70), max_tokens |-> JInt(100)])

\* The same request, streamed.
StreamBody ==
    JDict([model |-> JStr("mixtral-8x7b"), messages |-> JList(<<Hello>>),
           temperature |-> JFloat(70), max_tokens |-> JInt(100),
           stream |-> JBool(TRUE)])

\* No model: left to the router.
AutoBody == JDict([messages |-> JList(<<Hi>>)])

\* tests/test_api_orchestrator.py, test_api_missing_messages.
NoMessagesBody == JDict([model |-> JStr("test")])

\* A body that is JSON but no object: `[]`.
ListBody == JList(<<>>)

\* A `model` that is a list: `{"model": ["mixtral-8x7b"], "messages": [...]}`.
ListModelBody ==
    JDict([model |-> JList(<<JStr("mixtral-8x7b")>>), messages |-> JList(<<Hello>>)])

\* An empty `model`, streamed: `{"model": "", "messages": [...], "stream": true}`.
EmptyModelBody ==
    JDict([model |-> JStr(""), messages |-> JList(<<Hi>>), stream |-> JBool(TRUE)])

\* An HttpRequest: its X-Request-ID header ("" when not sent) and what its body holds.
Requests ==
    {[request_id |-> "test-request-id", json |-> FixtureBody],
     [request_id |-> "test-request-id", json |-> StreamBody],
     [request_id |-> "", json |-> AutoBody],
     [request_id |-> "test-id", json |-> NoMessagesBody],
     [request_id |-> "test-id", json |-> InvalidJson],
     [request_id |-> "test-id", json |-> ListBody],
     [request_id |-> "test-id", json |-> ListModelBody],
     [request_id |-> "test-id", json |-> EmptyModelBody]}

NoRequest == [request_id |-> "", json |-> InvalidJson]

Completion == JDict([choices |-> JStr("Hello")])
EmptyObject == JDict([k \in {} |-> JNull])
ClientErrorBody == JDict([error |-> JStr("bad request")])
ServerErrorBody == JDict([error |-> JStr("service unavailable")])

\* What one session.post can end in: an HTTP response with a JSON body, or
\* aiohttp.ClientError / asyncio.TimeoutError (status 0).
TransportError == [status |-> 0, body |-> JNull]
Outcomes ==
    {[status |-> 200, body |-> Completion],
     [status |-> 200, body |-> EmptyObject],
     [status |-> 400, body |-> ClientErrorBody],
     [status |-> 503, body |-> ServerErrorBody],
     TransportError}

---------------------------------------------------------------------------
\* main() and forward_to_backend(), one action per step.

Workers == 1..NumWorkers

NoReply == [status_code |-> 0, headers |-> [k \in {} |-> ""], body |-> JNull]

\* Nothing has returned yet.
NoPrev == [req |-> NoRequest, reply |-> NoReply, trace |-> <<>>, at |-> 0]

\* Seconds between the return of one invocation and the arrival of the next.
Gaps == {0, ttl + 1}

\* An empty os.environ or _secrets_cache: names (strings of characters) to values.
NoSecrets == [k \in {} |-> JNull]

\* No call of get_secret yet.
NoSecret == [name |-> <<>>, environ |-> NoSecrets, vault |-> "none", value |-> JNull,
             raised |-> FALSE]

\* No call of the health endpoint yet.
NoHealth == [check_type |-> JNull, status_code |-> 0, headers |-> [k \in {} |-> ""],
             body |-> JNull, ran |-> {}]

Init ==
    /\ now = 0
    /\ store = {}
    /\ cosmos_account \in BOOLEAN
    /\ served = 0
    /\ prev = NoPrev
    /\ pc = [p \in Workers |-> "idle"]
    /\ req = [p \in Workers |-> NoRequest]
    /\ body = [p \in Workers |-> JNull]
    /\ request_id = [p \in Workers |-> ""]
    /\ start_time = [p \in Workers |-> 0]
    /\ selected_model = [p \in Workers |-> JNull]
    /\ cached = [p \in Workers |-> JNull]
    /\ response = [p \in Workers |-> JNull]
    /\ attempt = [p \in Workers |-> 0]
    /\ posts = [p \in Workers |-> <<>>]
    /\ sleeps = [p \in Workers |-> <<>>]
    /\ trace = [p \in Workers |-> <<>>]
    /\ reply = [p \in Workers |-> NoReply]
    /\ _initialized = FALSE
    /\ _client = FALSE
    /\ _secrets_cache = NoSecrets
    /\ secret = NoSecret
    /\ health = NoHealth

\* trace[p] with the calls es appended.
Called(p, es) == trace' = [trace EXCEPT ![p] = trace[p] \o es]

\* main returns the HttpResponse r.
Return(p, r) ==
    /\ reply' = [reply EXCEPT ![p] = r]
    /\ pc' = [pc EXCEPT ![p] = "done"]

\* d[k] = x on a dict.
SetItem(d, k, x) == JDict([j \in DOMAIN d.dict \cup {k} |-> IF j = k THEN x ELSE d.dict[j]])

\* int((time.time() - start_time) * 1000)
duration_ms(p) == (now - start_time[p]) * 1000

\* invalid_request answered as a server fault.
invalid_request_as_500(message) ==
    [status_code |-> 500,
     headers |-> [k \in {} |-> ""],
     body |-> JDict([error |-> JDict([code |-> JStr("invalid_request"),
                                      message |-> JStr(message)])])]

\* The 400 of the two inner handlers.
invalid_request(message) ==
    [status_code |-> 400,
     headers |-> [k \in {} |-> ""],
     body |-> JDict([error |-> JDict([code |-> JStr("invalid_request"),
                                      message |-> JStr(message)])])]

\* internal_error with str(e) for the fixed message.
internal_error_with_exception_text(p) ==
    [status_code |-> 500,
     headers |-> [k \in {} |-> ""],
     body |-> JDict([error |-> JDict([code |-> JStr("internal_error"),
                                      message |-> JStr("Cannot connect to host"),
                                      request_id |-> JStr(request_id[p])])])]

\* The 500 of the outer `except Exception`.
internal_error(p) ==
    [status_code |-> 500,
     headers |-> [k \in {} |-> ""],
     body |-> JDict([error |-> JDict([code |-> JStr("internal_error"),
                                      message |-> JStr("An internal error occurred"),
                                      request_id |-> JStr(request_id[p])])])]

\* The headers of both 200 replies.
stamp(p, cache) ==
    [k \in {"X-Request-ID", "X-Cache", "X-Model", "X-Duration-Ms"} |->
        CASE k = "X-Request-ID" -> JStr(request_id[p])
          [] k = "X-Cache" -> JStr(cache)
          [] k = "X-Model" -> selected_model[p]
          [] k = "X-Duration-Ms" -> JStr(ToString(duration_ms(p)))]

\* The 200 of the cache-hit branch.
hit_response(p, c) ==
    [status_code |-> 200, headers |-> stamp(p, "HIT"),
     body |-> SetItem(c, "_cached", JBool(TRUE))]

\* miss_response marking the body as not cached.
miss_response_marked(p, resp) ==
    [status_code |-> 200, headers |-> stamp(p, "MISS"),
     body |-> SetItem(resp, "_cached", JBool(FALSE))]

\* miss_response with the status of the last attempt for the fixed 200.
miss_response_with_backend_status(p, resp) ==
    [status_code |-> posts[p][Len(posts[p])].status, headers |-> stamp(p, "MISS"),
     body |-> resp]

\* The 200 that ends the try block.
miss_response(p, resp) ==
    [status_code |-> 200, headers |-> stamp(p, "MISS"), body |-> resp]

\* body.get("stream", False)
stream(b) == Truthy(Get(b.dict, "stream", JBool(FALSE)))

\* What prev keeps of the record of an invocation: its dispatches and cache writes.
Kept(e) == e \in {"forward_to_backend", "upsert_item", "CosmosHttpResponseError"}

\* The invocation on p is one prev keeps: it was answered 200 and the store took
\* its response.
Remembered(p) ==
    /\ reply[p].status_code = 200
    /\ trace[p][Len(trace[p])] = "upsert_item"

\* Entry of main on worker p: start_time, request_id.  The locals of the
\* invocation the worker ran before are gone; when it stored its response,
\* what it was given, what it returned and what it dispatched and wrote is kept
\* in prev.  The clock starts at the first arrival.
Arrive(p, requests) ==
    /\ pc[p] \in {"idle", "done"}
    /\ served < NumRequests
    /\ served' = served + 1
    /\ \E r \in requests, d \in (IF served = 0 THEN {0} ELSE Gaps) :
        /\ now' = now + d
        /\ req' = [req EXCEPT ![p] = r]
        /\ request_id' = [request_id EXCEPT ![p] =
              IF r.request_id # "" THEN r.request_id
              ELSE "req-" \o ToString((now + d) * 1000)]
        /\ start_time' = [start_time EXCEPT ![p] = now + d]
    /\ prev' = IF pc[p] = "done" /\ Remembered(p)
               THEN [req |-> req[p], reply |-> reply[p],
                     trace |-> SelectSeq(trace[p], Kept), at |-> now]
               ELSE NoPrev
    /\ pc' = [pc EXCEPT ![p] = "parse"]
    /\ body' = [body EXCEPT ![p] = JNull]
    /\ selected_model' = [selected_model EXCEPT ![p] = JNull]
    /\ cached' = [cached EXCEPT ![p] = JNull]
    /\ response' = [response EXCEPT ![p] = JNull]
    /\ attempt' = [attempt EXCEPT ![p] = 0]
    /\ posts' = [posts EXCEPT ![p] = <<>>]
    /\ sleeps' = [sleeps EXCEPT ![p] = <<>>]
    /\ trace' = [trace EXCEPT ![p] = <<>>]
    /\ reply' = [reply EXCEPT ![p] = NoReply]
    /\ UNCHANGED <<store, cosmos_account, secrets_manager, health>>

\* A request of Requests arrives at worker p.
Receive(p) == Arrive(p, Requests)

\* raises_value_error with the parse failure let through.
raises_value_error_never(r) == FALSE

\* req.get_json() raises ValueError: the body is not parseable JSON.
raises_value_error(r) == r.json = InvalidJson

\* body = req.get_json(), and its ValueError handler.
Parse(p) ==
    /\ pc[p] = "parse"
    /\ Called(p, <<"get_json">>)
    /\ IF raises_value_error(req[p])
       THEN /\ Return(p, invalid_request("Invalid JSON in request body"))
            /\ UNCHANGED body
       ELSE /\ body' = [body EXCEPT ![p] = req[p].json]
            /\ pc' = [pc EXCEPT ![p] = "validate"]
            /\ UNCHANGED reply
    /\ UNCHANGED <<now, store, cosmos_account, secrets_manager, health, served, prev, req, request_id, start_time,
                   selected_model, cached, response, attempt, posts, sleeps>>

\* validate_chat_request(body), its ValueError handler, and the outer handler
\* for what else it raises.
Validate(p) ==
    /\ pc[p] = "validate"
    /\ Called(p, <<"validate_chat_request">>)
    /\ LET e == validate_chat_request(body[p]) IN
       CASE e.exc = "none" ->
              /\ pc' = [pc EXCEPT ![p] = "select"]
              /\ UNCHANGED reply
         [] e.exc = "ValueError" -> Return(p, invalid_request(e.msg))
         [] OTHER -> Return(p, internal_error(p))
    /\ UNCHANGED <<now, store, cosmos_account, secrets_manager, health, served, prev, req, body, request_id, start_time,
                   selected_model, cached, response, attempt, posts, sleeps>>

\* after_select without the lookup: every request goes straight to dispatch.
after_select_no_lookup(b) == "dispatch"

\* `if not body.get("stream", False)` before get_cached_response: where main
\* goes once the model is selected.
after_select(b) == IF ~stream(b) THEN "cache_check" ELSE "dispatch"

\* The model selection of main, and the branch on `stream` that follows it.
SelectModel(p) ==
    /\ pc[p] = "select"
    /\ Called(p, <<"select_model">>)
    /\ LET requested_model == Get(body[p].dict, "model", JStr("auto"))
           chosen == select_model(requested_model,
                                  Get(body[p].dict, "messages", JList(<<>>)).list)
       IN /\ selected_model' = [selected_model EXCEPT ![p] = chosen]
          /\ body' = [body EXCEPT ![p] = SetItem(body[p], "model", chosen)]
    /\ pc' = [pc EXCEPT ![p] = after_select(body[p])]
    /\ UNCHANGED <<now, store, cosmos_account, secrets_manager, health, served, prev, req, request_id, start_time,
                   cached, response, attempt, posts, sleeps, reply>>

\* is_hit taking whatever the lookup returned for a hit.
is_hit_always(c) == TRUE

\* `if cached:` of main.
is_hit(c) == Truthy(c)

\* CacheCheck writing the marked body back to the store on a hit.
CacheCheck_writing_back(p) ==
    /\ pc[p] = "cache_check"
    /\ \E fault \in BOOLEAN :
        LET found == read_item(body[p].dict)
            c == IF cosmos_account /\ ~fault /\ found # {}
                 THEN (CHOOSE i \in found : TRUE).response ELSE JNull
        IN /\ IF ~cosmos_account THEN
                  /\ ~fault
                  /\ Called(p, <<"get_cached_response">>)
              ELSE IF fault THEN
                  Called(p, <<"get_cached_response", "read_item",
                              "CosmosHttpResponseError">>)
              ELSE IF found = {} THEN
                  Called(p, <<"get_cached_response", "read_item",
                              "CosmosResourceNotFoundError">>)
              ELSE
                  Called(p, <<"get_cached_response", "read_item">>)
           /\ cached' = [cached EXCEPT ![p] = c]
           /\ IF is_hit(c)
              THEN /\ IF Type(c) = "dict"
                      THEN Return(p, hit_response(p, c))
                      ELSE Return(p, internal_error(p))
                   /\ store' = upsert_item(cache_item(body[p].dict,
                                                      SetItem(c, "_cached", JBool(TRUE))))
              ELSE /\ pc' = [pc EXCEPT ![p] = "dispatch"]
                   /\ UNCHANGED <<reply, store>>
    /\ UNCHANGED <<now, cosmos_account, secrets_manager, health, served, prev, req, body, request_id,
                   start_time, selected_model, response, attempt, posts, sleeps>>

\* cached = await cache_manager.get_cached_response(body), and the hit branch.
\* read_item raises when the container has no such item, or cannot be reached;
\* get_cached_response turns either into None.
CacheCheck(p) ==
    /\ pc[p] = "cache_check"
    /\ \E fault \in BOOLEAN :
        LET found == read_item(body[p].dict)
            c == IF cosmos_account /\ ~fault /\ found # {}
                 THEN (CHOOSE i \in found : TRUE).response ELSE JNull
        IN /\ IF ~cosmos_account THEN
                  /\ ~fault
                  /\ Called(p, <<"get_cached_response">>)
              ELSE IF fault THEN
                  Called(p, <<"get_cached_response", "read_item",
                              "CosmosHttpResponseError">>)
              ELSE IF found = {} THEN
                  Called(p, <<"get_cached_response", "read_item",
                              "CosmosResourceNotFoundError">>)
              ELSE
                  Called(p, <<"get_cached_response", "read_item">>)
           /\ cached' = [cached EXCEPT ![p] = c]
           /\ IF is_hit(c)
              THEN IF Type(c) = "dict"
                   THEN Return(p, hit_response(p, c))
                   ELSE Return(p, internal_error(p))
              ELSE /\ pc' = [pc EXCEPT ![p] = "dispatch"]
                   /\ UNCHANGED reply
    /\ UNCHANGED <<now, store, cosmos_account, secrets_manager, health, served, prev, req, body, request_id,
                   start_time, selected_model, response, attempt, posts, sleeps>>

\* max_retries of forward_to_backend; main passes none.
max_retries == 3

\* may_retry without the bound.
may_retry_always(a) == TRUE

\* may_retry with the bound off by one, upwards and downwards.
may_retry_one_more(a) == a < max_retries
may_retry_one_less(a) == a < max_retries - 2

\* `attempt < max_retries - 1`: another attempt follows a failed one.
may_retry(a) == a < max_retries - 1

\* backoff with `2 * attempt` for `2 ** attempt`.
backoff_product(a) == 2 * a

\* The argument of asyncio.sleep after failed attempt a.
backoff(a) == 2 ^ a

\* is_server_error taking client errors in.
is_server_error_from_400(status) == status >= 400

\* `response.status >= 500`
is_server_error(status) == status >= 500

---------------------------------------------------------------------------
\* SecretsManager.  A secret's name and an environment variable's name are
\* strings of characters; a value is a JSON string or None.

Lowercase == <<"a", "b", "c", "d", "e", "f", "g", "h", "i", "j", "k", "l", "m",
               "n", "o", "p", "q", "r", "s", "t", "u", "v", "w", "x", "y", "z">>

Uppercase == <<"A", "B", "C", "D", "E", "F", "G", "H", "I", "J", "K", "L", "M",
               "N", "O", "P", "Q", "R", "S", "T", "U", "V", "W", "X", "Y", "Z">>

\* str.upper()
upper(s) ==
    [i \in DOMAIN s |->
        IF \E j \in DOMAIN Lowercase : Lowercase[j] = s[i]
        THEN Uppercase[CHOOSE j \in DOMAIN Lowercase : Lowercase[j] = s[i]]
        ELSE s[i]]

\* str.replace(old, new) for one-character old and new
replace(s, old, new) == [i \in DOMAIN s |-> IF s[i] = old THEN new ELSE s[i]]

\* `name.upper().replace("-", "_")`
env_name(name) == replace(upper(name), "-", "_")

\* os.environ.get(key) in the environment environ
environ_get(environ, key) == IF key \in DOMAIN environ THEN JStr(environ[key]) ELSE JNull

\* "internal-service-key"
InternalServiceKey ==
    <<"i", "n", "t", "e", "r", "n", "a", "l", "-",
      "s", "e", "r", "v", "i", "c", "e", "-", "k", "e", "y">>

\* What self._client.get_secret(name) ends in: a secret with a value, or an exception.
VaultReads ==
    {[raises |-> FALSE, value |-> JStr("v1")],
     [raises |-> FALSE, value |-> JStr("v2")],
     [raises |-> TRUE, value |-> JNull]}

\* No read of the vault.
NoRead == [raises |-> FALSE, value |-> JNull]

\* Whether a raise of the vault read leaves get_secret: the `except Exception`
\* catches it.
escapes(read) == FALSE

\* get_secret reading the vault whatever the memo holds.
memoized_never(name) == FALSE

\* Whether get_secret returns from the memo: `name in self._secrets_cache`.
memoized(name) == name \in DOMAIN _secrets_cache

\* _secrets_cache after a read of the vault: `self._secrets_cache[name] = secret.value`
\* on success, untouched otherwise.
remembered(name, read) ==
    IF read.raises THEN _secrets_cache
    ELSE [k \in DOMAIN _secrets_cache \cup {name} |->
              IF k = name THEN read.value ELSE _secrets_cache[k]]

\* get_secret(name) on the singleton: _initialize with KEY_VAULT_NAME one of
\* key_vault_names, os.environ one of environs, the vault answering one of reads.
get_secret_call(name, key_vault_names, environs, reads) ==
    \E kv_name \in key_vault_names, environ \in environs :
        LET client == IF _initialized THEN _client ELSE Truthy(kv_name)
            memo == memoized(name)
        IN \E read \in (IF client /\ ~memo THEN reads ELSE {NoRead}) :
            /\ _initialized' = TRUE
            /\ _client' = client
            /\ _secrets_cache' = IF client /\ ~memo THEN remembered(name, read)
                                 ELSE _secrets_cache
            /\ secret' =
                   [name |-> name,
                    environ |-> environ,
                    vault |-> IF memo THEN "memo"
                              ELSE IF ~client THEN "unconfigured"
                              ELSE IF read.raises THEN "failed"
                              ELSE "read",
                    value |-> IF memo THEN _secrets_cache[name]
                              ELSE IF client /\ ~read.raises THEN read.value
                              ELSE IF client /\ escapes(read) THEN JNull
                              ELSE environ_get(environ, env_name(name)),
                    raised |-> client /\ ~memo /\ escapes(read)]

\* backend_url, internal_key, headers, and the call of forward_to_backend, in
\* a deployment with neither KEY_VAULT_NAME nor INTERNAL_SERVICE_KEY set.
Dispatch(p) ==
    /\ pc[p] = "dispatch"
    /\ get_secret_call(InternalServiceKey, {JNull}, {NoSecrets}, VaultReads)
    /\ Called(p, <<"get_backend_url", "get_secret", "forward_to_backend">>)
    /\ attempt' = [attempt EXCEPT ![p] = 0]
    /\ IF 0 < max_retries
       THEN /\ pc' = [pc EXCEPT ![p] = "attempt"]
            /\ UNCHANGED reply
       ELSE Return(p, internal_error(p))
    /\ UNCHANGED <<now, store, cosmos_account, health, served, prev, req, body, request_id, start_time,
                   selected_model, cached, response, posts, sleeps>>

\* One pass of the loop of forward_to_backend: session.post and what follows
\* from its outcome, up to the sleep, the return or the raise.
AttemptWith(p, outcomes) ==
    /\ pc[p] = "attempt"
    /\ \E o \in outcomes :
        /\ posts' = [posts EXCEPT ![p] = Append(posts[p], o)]
        /\ IF o # TransportError /\ ~is_server_error(o.status) THEN
               \* 200, or a client error: return await response.json()
               /\ Called(p, <<"post">>)
               /\ response' = [response EXCEPT ![p] = o.body]
               /\ pc' = [pc EXCEPT ![p] = "returned"]
               /\ UNCHANGED <<sleeps, reply>>
           ELSE IF may_retry(attempt[p]) THEN
               /\ Called(p, <<"post", "sleep">>)
               /\ sleeps' = [sleeps EXCEPT ![p] = Append(sleeps[p], backoff(attempt[p]))]
               /\ pc' = [pc EXCEPT ![p] = "sleep"]
               /\ UNCHANGED <<response, reply>>
           ELSE IF o # TransportError THEN
               \* the last server error: return await response.json()
               /\ Called(p, <<"post">>)
               /\ response' = [response EXCEPT ![p] = o.body]
               /\ pc' = [pc EXCEPT ![p] = "returned"]
               /\ UNCHANGED <<sleeps, reply>>
           ELSE
               \* raise e, caught by main's outer handler
               /\ Called(p, <<"post", "raise">>)
               /\ Return(p, internal_error(p))
               /\ UNCHANGED <<sleeps, response>>
    /\ UNCHANGED <<now, store, cosmos_account, secrets_manager, health, served, prev, req, body, request_id, start_time,
                   selected_model, cached, attempt>>

\* An attempt against a backend that can answer with any of Outcomes.
Attempt(p) == AttemptWith(p, Outcomes)

\* The sleep ends and the loop goes on, or runs out.
Sleep(p) ==
    /\ pc[p] = "sleep"
    /\ attempt' = [attempt EXCEPT ![p] = attempt[p] + 1]
    /\ IF attempt[p] + 1 < max_retries
       THEN /\ pc' = [pc EXCEPT ![p] = "attempt"]
            /\ UNCHANGED <<reply, trace>>
       ELSE \* raise Exception("Failed to forward request after ... attempts")
            /\ Called(p, <<"raise">>)
            /\ Return(p, internal_error(p))
    /\ UNCHANGED <<now, store, cosmos_account, secrets_manager, health, served, prev, req, body, request_id, start_time,
                   selected_model, cached, response, posts, sleeps>>

\* caches_response without the test of `stream`.
caches_response_ungated(b) == TRUE

\* `if not body.get("stream", False)` before set_cached_response.
caches_response(b) == ~stream(b)

\* forward_to_backend has returned: the cache write and the 200 reply.
Respond(p) ==
    /\ pc[p] = "returned"
    /\ IF caches_response(body[p]) THEN
           \E fault \in BOOLEAN :
              IF ~cosmos_account THEN
                  /\ ~fault
                  /\ Called(p, <<"set_cached_response">>)
                  /\ UNCHANGED store
              ELSE IF fault THEN
                  /\ Called(p, <<"set_cached_response", "upsert_item",
                                 "CosmosHttpResponseError">>)
                  /\ UNCHANGED store
              ELSE
                  /\ Called(p, <<"set_cached_response", "upsert_item">>)
                  /\ store' = upsert_item(cache_item(body[p].dict, response[p]))
       ELSE UNCHANGED <<store, trace>>
    /\ Return(p, miss_response(p, response[p]))
    /\ UNCHANGED <<now, cosmos_account, secrets_manager, health, served, prev, req, body, request_id, start_time,
                   selected_model, cached, response, attempt, posts, sleeps>>

\* The steps of the invocation on worker p.
Step(p) ==
    \/ Receive(p)
    \/ Parse(p)
    \/ Validate(p)
    \/ SelectModel(p)
    \/ CacheCheck(p)
    \/ Dispatch(p)
    \/ Attempt(p)
    \/ Sleep(p)
    \/ Respond(p)

\* One worker: requests are handled one after the other.
Next == Step(1)

Spec == Init /\ [][Next]_vars

---------------------------------------------------------------------------
\* The first steps of main on their own, parse, validate and select, over
\* requests that differ in one numeric field, in their messages, or in the
\* size and the terms of their content.

\* Largest number of messages in a request of MessageRequests.
MaxMessages == 2

\* Values given to max_tokens, temperature and top_p: integers, floats (in
\* hundredths), true, a string and null.
NumericValues ==
    {JInt(-1), JInt(0), JInt(1), JInt(2), JInt(3), JInt(4096), JInt(4097),
     JFloat(-1), JFloat(0), JFloat(50), JFloat(100), JFloat(101), JFloat(200),
     JFloat(201), JFloat(10000), JBool(TRUE), JBool(FALSE), JStr("1"), JNull}

NumericFields == {"max_tokens", "temperature", "top_p"}

\* AutoBody with one numeric field given.
NumericRequests ==
    {SetItem(AutoBody, f, v) : f \in NumericFields, v \in NumericValues}

\* Messages: a valid one, and one for each check of the validator's loop.
NotADict == JStr("Hi")
NoContent == JDict([role |-> JStr("user")])
BadRole == JDict([role |-> JStr("tool"), content |-> JText(2, {})])
BadContent == JDict([role |-> JStr("user"), content |-> JInt(2)])
Messages == {Hi, NotADict, NoContent, BadRole, BadContent}

\* Requests with 1..MaxMessages messages of Messages.
MessageRequests ==
    {JDict([messages |-> JList(ms)]) :
        ms \in UNION {[1..n -> Messages] : n \in 1..MaxMessages}}

\* Content lengths around the thresholds of select_model (2000 and 4000
\* estimated tokens) and of validate_chat_request (32768).
ContentChars == {400, 8000, 8004, 16000, 16004, 20000, 40000, 131072, 131076}

\* Technical terms in the content: none, one, two, three.
ContentTerms ==
    {{}, {"function"}, {"function", "api"}, {"function", "api", "algorithm"}}

\* One user message of the given length and terms, with model "auto" and with
\* no model; and two messages with one term each.
SizedRequests ==
    {JDict([messages |-> JList(<<JDict([role |-> JStr("user"),
                                         content |-> JText(n, ts)])>>)]) :
        n \in ContentChars, ts \in ContentTerms}
    \cup
    {JDict([model |-> JStr("auto"),
            messages |-> JList(<<JDict([role |-> JStr("user"),
                                         content |-> JText(n, ts)])>>)]) :
        n \in ContentChars, ts \in ContentTerms}
    \cup
    {JDict([messages |-> JList(<<JDict([role |-> JStr("system"),
                                         content |-> JText(200, {"function"})]),
                                  JDict([role |-> JStr("user"),
                                         content |-> JText(200, {"api"})])>>)])}

FrontRequests ==
    {[request_id |-> "test-id", json |-> b] :
        b \in NumericRequests \cup MessageRequests \cup SizedRequests}

FrontNext ==
    \/ Arrive(1, FrontRequests)
    \/ Parse(1)
    \/ Validate(1)
    \/ SelectModel(1)

FrontSpec == Init /\ [][FrontNext]_vars

---------------------------------------------------------------------------
\* Invocations of main in flight at the same time, one per worker, their steps
\* interleaved, against a backend that answers 200 at the first attempt.

\* Every client sends the fixture request: one key, one partition.
ConcurrentRequests ==
    {[request_id |-> "test-request-id", json |-> FixtureBody]}

\* The two 200 replies of Outcomes.
SuccessOutcomes == {o \in Outcomes : o.status = 200}

ConcurrentStep(p) ==
    \/ Arrive(p, ConcurrentRequests)
    \/ Parse(p)
    \/ Validate(p)
    \/ SelectModel(p)
    \/ CacheCheck(p)
    \/ Dispatch(p)
    \/ AttemptWith(p, SuccessOutcomes)
    \/ Respond(p)

ConcurrentNext == \E p \in Workers : ConcurrentStep(p)

ConcurrentSpec == Init /\ [][ConcurrentNext]_vars

---------------------------------------------------------------------------
\* SecretsManager.get_secret called directly, in any deployment.

\* KEY_VAULT_NAME: not set, empty, or a vault's name.
KeyVaultNames == {JNull, JStr(""), JStr("test-kv")}

\* Names asked for: the orchestrator's, and three that differ in case and in
\* "-" against "_" only.
SecretNames == {InternalServiceKey, <<"k", "-">>, <<"k", "_">>, <<"K", "_">>}

\* os.environ: empty; holding the variables derived from the names; holding
\* variables spelled as the names are, but not the derived ones.
Environs ==
    {NoSecrets,
     (upper(replace(InternalServiceKey, "-", "_")) :> "e1") @@ (<<"K", "_">> :> "e2")
         @@ (<<"k", "-">> :> "e3") @@ (<<"K", "-">> :> "e4") @@ (<<"k", "_">> :> "e5"),
     (InternalServiceKey :> "e6") @@ (<<"k", "-">> :> "e3") @@ (<<"K", "-">> :> "e4")
         @@ (<<"k", "_">> :> "e5")}

get_secret(name) ==
    /\ get_secret_call(name, KeyVaultNames, Environs, VaultReads)
    /\ UNCHANGED <<orchestrator, health>>

SecretNext == \E name \in SecretNames : get_secret(name)

SecretSpec == Init /\ [][SecretNext]_vars

---------------------------------------------------------------------------
\* The health endpoint of src/src/health/health_functions.py.

\* route_params["check_type"]: missing, or a string.
CheckTypes ==
    {JNull, JStr("live"), JStr("ready"), JStr("startup"), JStr("unknown"),
     JStr("READY"), JStr("")}

\* What a listing against the vault or the database ends in.
Listings == {"listed", "raises"}

\* What session.get on the backend's /health ends in: a response's status, a
\* ClientError, or another exception (a timeout).
HealthPosts ==
    {[raises |-> "", status |-> n] : n \in {200, 404, 503}}
    \cup {[raises |-> e, status |-> 0] : e \in {"ClientError", "TimeoutError"}}

\* WEBSITE_INSTANCE_ID: not set, or an instance id.
InstanceIds == {JNull, JStr("instance-1")}

\* A reading of datetime.now().isoformat() + "Z".
Timestamp == JStr("2024-01-01T00:00:00.000000Z")

\* check_keyvault() with KEY_VAULT_NAME kv_name and the listing ending in listing.
check_keyvault(kv_name, listing) ==
    IF ~Truthy(kv_name)
    THEN JDict([status |-> JStr("skip"), message |-> JStr("KEY_VAULT_NAME not set")])
    ELSE IF listing = "listed"
    THEN JDict([status |-> JStr("healthy"), latency_ms |-> JInt(0)])
    ELSE JDict([status |-> JStr("unhealthy"), error |-> JStr("listing failed")])

\* check_cosmos() with COSMOS_ACCOUNT account and the listing ending in listing.
check_cosmos(account, listing) ==
    IF ~Truthy(account)
    THEN JDict([status |-> JStr("skip"), message |-> JStr("COSMOS_ACCOUNT not set")])
    ELSE IF listing = "listed"
    THEN JDict([status |-> JStr("healthy"), latency_ms |-> JInt(0)])
    ELSE JDict([status |-> JStr("unhealthy"), error |-> JStr("listing failed")])

\* check_inference_backend() with session.get ending in post.
check_inference_backend(post) ==
    IF post.raises # ""
    THEN JDict([status |-> JStr("unhealthy"), error |-> JStr(post.raises)])
    ELSE IF post.status = 200
    THEN JDict([status |-> JStr("healthy"), instances |-> JInt(1), latency_ms |-> JInt(0)])
    ELSE JDict([status |-> JStr("degraded"),
                error |-> JStr("HTTP " \o ToString(post.status))])

\* `v.get("status") == status`
has_status(v, status) == Get(v.dict, "status", JNull) = JStr(status)

\* The overall status with a degraded dependency looked for first.
overall_degraded_first(checks) ==
    IF \E k \in DOMAIN checks : has_status(checks[k], "degraded")
    THEN [status |-> "degraded", status_code |-> 200]
    ELSE IF \E k \in DOMAIN checks : has_status(checks[k], "unhealthy")
    THEN [status |-> "unhealthy", status_code |-> 503]
    ELSE [status |-> "healthy", status_code |-> 200]

\* "Determine overall status": response["status"] and status_code from the checks.
overall(checks) ==
    IF \E k \in DOMAIN checks : has_status(checks[k], "unhealthy")
    THEN [status |-> "unhealthy", status_code |-> 503]
    ELSE IF \E k \in DOMAIN checks : has_status(checks[k], "degraded")
    THEN [status |-> "degraded", status_code |-> 200]
    ELSE [status |-> "healthy", status_code |-> 200]

\* The reply of the probes: the response dict as json.dumps writes it.
health_response(check_type, instance, status, status_code, checks) ==
    [status_code |-> status_code,
     headers |-> [k \in {"Cache-Control", "X-Health-Check"} |->
                     IF k = "Cache-Control" THEN "no-cache, no-store, must-revalidate"
                     ELSE check_type],
     body |-> JDict([status |-> JStr(status),
                     timestamp |-> Timestamp,
                     version |-> IF instance = JNull THEN JStr("local") ELSE instance,
                     checks |-> JDict(checks)])]

\* main(req) of the health function app.
health_main ==
    \E route \in CheckTypes, instance \in InstanceIds,
       kv_name \in KeyVaultNames, account \in KeyVaultNames,
       kv_listing \in Listings, cosmos_listing \in Listings, post \in HealthPosts :
        LET check_type == IF route = JNull THEN "live" ELSE route.str
            self == [self |-> JDict([status |-> JStr("healthy")])]
            initialization == [initialization |-> JDict([status |-> JStr("healthy")])]
            checks == [keyvault |-> check_keyvault(kv_name, kv_listing),
                       cosmos |-> check_cosmos(account, cosmos_listing),
                       inference_backend |-> check_inference_backend(post)]
            r == IF check_type = "live"
                 THEN health_response(check_type, instance, "healthy", 200, self)
                 ELSE IF check_type = "ready"
                 THEN health_response(check_type, instance, overall(checks).status,
                                      overall(checks).status_code, checks)
                 ELSE IF check_type = "startup"
                 THEN health_response(check_type, instance, "healthy", 200, initialization)
                 ELSE [status_code |-> 400,
                       headers |-> [k \in {} |-> ""],
                       body |-> JDict([error |-> JStr("Unknown check type: " \o check_type)])]
        IN /\ health' = [check_type |-> route,
                         status_code |-> r.status_code,
                         headers |-> r.headers,
                         body |-> r.body,
                         ran |-> IF check_type = "ready"
                                 THEN {"check_keyvault", "check_cosmos",
                                       "check_inference_backend"}
                                 ELSE {}]
           /\ UNCHANGED <<orchestrator, secrets_manager>>

HealthNext == health_main

HealthSpec == Init /\ [][HealthNext]_vars

\* The event loop runs an invocation that is not finished: every await of main
\* and forward_to_backend returns.
LiveSpec == Init /\ [][Next]_vars /\ WF_vars(Next)

---------------------------------------------------------------------------
\* CacheManager on its own: get_cached_response and set_cached_response called
\* with request dicts directly, as main calls them after the model is selected.

\* AutoBody as main hands it to the cache: `model` set to the selected one.
KeyBody == JDict([model |-> JStr("phi-3-mini"), messages |-> JList(<<Hi>>)])

\* KeyBody with temperature given as 1.0, as 1 and as 0.7, and with the fields
\* `stream` and `user`, which the key leaves out.
CacheRequests ==
    {KeyBody,
     SetItem(KeyBody, "temperature", JFloat(100)),
     SetItem(KeyBody, "temperature", JInt(1)),
     SetItem(KeyBody, "temperature", JFloat(70)),
     SetItem(SetItem(KeyBody, "stream", JBool(TRUE)), "user", JStr("alice"))}

\* await cache_manager.set_cached_response(request, response) on worker p.
set_cached_response(p) ==
    /\ served < NumRequests
    /\ served' = served + 1
    /\ \E request \in CacheRequests, fault \in BOOLEAN :
        /\ body' = [body EXCEPT ![p] = request]
        /\ response' = [response EXCEPT ![p] = Completion]
        /\ IF ~cosmos_account THEN
               /\ ~fault
               /\ trace' = [trace EXCEPT ![p] = <<"set_cached_response">>]
               /\ UNCHANGED store
           ELSE IF fault THEN
               /\ trace' = [trace EXCEPT ![p] = <<"set_cached_response", "upsert_item",
                                                  "CosmosHttpResponseError">>]
               /\ UNCHANGED store
           ELSE
               /\ trace' = [trace EXCEPT ![p] = <<"set_cached_response", "upsert_item">>]
               /\ store' = upsert_item(cache_item(request.dict, Completion))
    /\ cached' = [cached EXCEPT ![p] = JNull]
    /\ UNCHANGED <<now, cosmos_account, secrets_manager, health, prev, pc, req, request_id, start_time,
                   selected_model, attempt, posts, sleeps, reply>>

\* cached = await cache_manager.get_cached_response(request) on worker p.
get_cached_response(p) ==
    /\ served < NumRequests
    /\ served' = served + 1
    /\ \E request \in CacheRequests, fault \in BOOLEAN :
        LET found == read_item(request.dict) IN
        /\ body' = [body EXCEPT ![p] = request]
        /\ IF ~cosmos_account THEN
               /\ ~fault
               /\ trace' = [trace EXCEPT ![p] = <<"get_cached_response">>]
               /\ cached' = [cached EXCEPT ![p] = JNull]
           ELSE IF fault THEN
               /\ trace' = [trace EXCEPT ![p] = <<"get_cached_response", "read_item",
                                                  "CosmosHttpResponseError">>]
               /\ cached' = [cached EXCEPT ![p] = JNull]
           ELSE IF found = {} THEN
               /\ trace' = [trace EXCEPT ![p] = <<"get_cached_response", "read_item",
                                                  "CosmosResourceNotFoundError">>]
               /\ cached' = [cached EXCEPT ![p] = JNull]
           ELSE
               /\ trace' = [trace EXCEPT ![p] = <<"get_cached_response", "read_item">>]
               /\ cached' = [cached EXCEPT ![p] = (CHOOSE i \in found : TRUE).response]
    /\ response' = [response EXCEPT ![p] = JNull]
    /\ UNCHANGED <<now, store, cosmos_account, secrets_manager, health, prev, pc, req, request_id, start_time,
                   selected_model, attempt, posts, sleeps, reply>>

CacheNext == \E p \in Workers : set_cached_response(p) \/ get_cached_response(p)

CacheSpec == Init /\ [][CacheNext]_vars

---------------------------------------------------------------------------
\* Reading the record of an invocation.

\* The call or fault e is on record t.
Has(t, e) == \E i \in 1..Len(t) : t[i] = e

\* How often e is on record t.
Count(t, e) == Cardinality({i \in 1..Len(t) : t[i] = e})

\* On record t, some e is directly followed by f.
NextIs(t, e, f) == \E i \in 1..Len(t) - 1 : t[i] = e /\ t[i + 1] = f

\* Every e on record t comes before every f on it.
Before(t, e, f) ==
    \A j \in 1..Len(t) : t[j] = f => \A i \in 1..Len(t) : t[i] = e => i < j

\* The store answered the lookup of the invocation on p with an item.
LookupFound(t) ==
    /\ Has(t, "read_item")
    /\ ~NextIs(t, "read_item", "CosmosHttpResponseError")
    /\ ~NextIs(t, "read_item", "CosmosResourceNotFoundError")

\* The store took the write of the invocation.
WriteStored(t) ==
    /\ Has(t, "upsert_item")
    /\ ~NextIs(t, "upsert_item", "CosmosHttpResponseError")

\* The reply r is a 200 stamped with cache status c.
Stamped(r, c) == r.status_code = 200 /\ r.headers["X-Cache"] = JStr(c)

\* The request is one main lets through validation.
Valid(r) == r.json # InvalidJson /\ validate_chat_request(r.json) = NoExc

---------------------------------------------------------------------------
\* C1. Idempotence: when the same valid non-streaming request is handled twice
\* in a row against a working cache, the first call being a MISS whose backend
\* call returned a response, the second call is answered X-Cache: HIT with
\* `_cached: true` in the body, and the backend is dispatched once over the two.
C1_TwiceInARow(p) ==
    /\ pc[p] = "done"
    /\ prev.req = req[p]
    /\ Valid(req[p]) /\ ~stream(req[p].json)
    /\ Stamped(prev.reply, "MISS")
    /\ WriteStored(prev.trace)
    /\ Has(trace[p], "read_item")
    /\ ~NextIs(trace[p], "read_item", "CosmosHttpResponseError")
    /\ now <= prev.at + ttl

C1_Idempotence ==
    \A p \in Workers :
        C1_TwiceInARow(p) =>
            /\ Stamped(reply[p], "HIT")
            /\ Type(reply[p].body) = "dict"
            /\ Get(reply[p].body.dict, "_cached", JNull) = JBool(TRUE)
            /\ Count(prev.trace, "forward_to_backend")
                 + Count(trace[p], "forward_to_backend") = 1

\* C2. Cache-hit short circuit: whenever the lookup of a non-streaming request
\* returns a stored response, main answers 200, X-Cache: HIT, with the stored
\* body and `_cached` true, and calls none of get_backend_url, get_secret,
\* forward_to_backend and set_cached_response.
C2_HitShortCircuit ==
    \A p \in Workers :
        LookupFound(trace[p]) =>
            /\ pc[p] = "done"
            /\ Stamped(reply[p], "HIT")
            /\ reply[p].body = SetItem(cached[p], "_cached", JBool(TRUE))
            /\ ~Has(trace[p], "get_backend_url")
            /\ ~Has(trace[p], "get_secret")
            /\ ~Has(trace[p], "forward_to_backend")
            /\ ~Has(trace[p], "set_cached_response")

\* C3. Ordering inside one request: validation is over before model selection,
\* selection before the cache lookup, the lookup before any dispatch attempt (a
\* non-streaming request is not dispatched without it), and a cache write
\* happens only after the dispatch has returned.
C3_Ordering ==
    \A p \in Workers :
        LET t == trace[p] IN
        /\ Before(t, "validate_chat_request", "select_model")
        /\ Before(t, "select_model", "get_cached_response")
        /\ Before(t, "select_model", "forward_to_backend")
        /\ Before(t, "get_cached_response", "forward_to_backend")
        /\ Before(t, "get_cached_response", "post")
        /\ Before(t, "forward_to_backend", "post")
        /\ Before(t, "post", "set_cached_response")
        /\ Has(t, "select_model") => Has(t, "validate_chat_request")
        /\ Has(t, "get_cached_response") => Has(t, "select_model")
        /\ Has(t, "forward_to_backend") =>
              /\ Has(t, "select_model")
              /\ ~stream(body[p]) => Has(t, "get_cached_response")
        /\ Has(t, "post") => Has(t, "forward_to_backend")
        /\ Has(t, "set_cached_response") => (Has(t, "post") /\ ~Has(t, "raise"))

C3_Witness ==
    /\ pc[1] = "done"
    /\ Has(trace[1], "validate_chat_request")
    /\ Has(trace[1], "select_model")
    /\ Has(trace[1], "get_cached_response")
    /\ Count(trace[1], "post") = max_retries
    /\ Has(trace[1], "set_cached_response")

\* The request asks for a streamed reply.
Streamed(r) == Type(r.json) = "dict" /\ stream(r.json)

\* C4. Stream gating: a request with stream == true gets no cache lookup and no
\* cache write; once validated it goes to dispatch, it is never answered
\* X-Cache: HIT, and the reply made of what the dispatcher returned is stamped
\* X-Cache: MISS.
C4_StreamGating ==
    \A p \in Workers :
        (pc[p] # "idle" /\ Streamed(req[p])) =>
            LET t == trace[p] IN
            /\ ~Has(t, "get_cached_response") /\ ~Has(t, "read_item")
            /\ ~Has(t, "set_cached_response") /\ ~Has(t, "upsert_item")
            /\ cached[p] = JNull
            /\ pc[p] \notin {"cache_check"}
            /\ (pc[p] = "done" /\ Has(t, "select_model")) =>
                  /\ Has(t, "forward_to_backend")
                  /\ ~Has(t, "raise") => Stamped(reply[p], "MISS")
            /\ reply[p].status_code = 200 => Stamped(reply[p], "MISS")

\* A streamed request answered MISS while the store holds a live entry under
\* its key, written for the same request without `stream`.
C4_Witness ==
    /\ pc[1] = "done"
    /\ Streamed(req[1])
    /\ Stamped(reply[1], "MISS")
    /\ read_item(body[1].dict) # {}

\* Every attempt so far got an HTTP status >= 500.
AllServerErrors(ps) == ps # <<>> /\ \A i \in 1..Len(ps) : ps[i].status >= 500

\* forward_to_backend has ended, by a return or a raise.
Ended(p) ==
    \/ pc[p] = "returned"
    \/ pc[p] = "done" /\ Has(trace[p], "forward_to_backend")

\* C5. Server-error retry: when every attempt gets a status >= 500 the
\* dispatcher makes max_retries attempts, never more, and then returns the
\* body of the last attempt; it does not raise.
C5_ServerErrorRetry ==
    \A p \in Workers :
        AllServerErrors(posts[p]) =>
            /\ Len(posts[p]) <= max_retries
            /\ ~Has(trace[p], "raise")
            /\ IF Ended(p)
               THEN /\ Len(posts[p]) = max_retries
                    /\ response[p] = posts[p][Len(posts[p])].body
               ELSE /\ Len(posts[p]) < max_retries
                    /\ pc[p] = "sleep" \/ (pc[p] = "attempt" /\ Len(posts[p]) = attempt[p])

C5_Witness ==
    /\ pc[1] = "returned"
    /\ AllServerErrors(posts[1])
    /\ Len(posts[1]) = 3
    /\ response[1] = ServerErrorBody

\* C6. Relay of an exhausted server error: when the backend answers 503 on all
\* max_retries attempts, the dispatcher returns the third 503 body unchanged and
\* the reply of main carries the status the backend set, 503.
C6_RelayStatus ==
    \A p \in Workers :
        (/\ pc[p] = "done"
         /\ Len(posts[p]) = max_retries
         /\ \A i \in 1..Len(posts[p]) : posts[p][i].status = 503) =>
            /\ response[p] = posts[p][max_retries].body
            /\ reply[p].body = posts[p][max_retries].body
            /\ reply[p].status_code = posts[p][max_retries].status

\* C7. No retry on a non-5xx response: the first attempt that gets a 200 or a
\* 4xx ends the dispatch; its body is returned, no attempt and no sleep follow.
C7_NoRetryBelow500 ==
    \A p \in Workers :
        \A i \in 1..Len(posts[p]) :
            (posts[p][i] # TransportError /\ posts[p][i].status < 500) =>
                /\ i = Len(posts[p])
                /\ pc[p] \in {"returned", "done"}
                /\ response[p] = posts[p][i].body
                /\ Len(sleeps[p]) = i - 1
                /\ Count(trace[p], "sleep") = i - 1
                /\ ~Has(trace[p], "raise")

C7_Witness ==
    /\ pc[1] = "returned"
    /\ Len(posts[1]) = 2
    /\ posts[1][2].status = 400
    /\ response[1] = ClientErrorBody

\* C8. Transport-failure retry: a transport failure of an attempt that is not
\* the last is followed by another attempt; when the last attempt fails at the
\* transport level too, forward_to_backend raises and returns no body.
C8_TransportRetry ==
    \A p \in Workers :
        \A i \in 1..Len(posts[p]) :
            posts[p][i] = TransportError =>
                IF i < max_retries
                THEN i = Len(posts[p]) =>
                        /\ pc[p] = "sleep" \/ (pc[p] = "attempt" /\ attempt[p] = i)
                        /\ ~Has(trace[p], "raise")
                ELSE /\ pc[p] = "done"
                     /\ Has(trace[p], "raise")
                     /\ response[p] = JNull
                     /\ reply[p].status_code = 500

C8_Witness ==
    /\ pc[1] = "done"
    /\ posts[1] = <<TransportError, TransportError, TransportError>>
    /\ Has(trace[1], "raise")

\* C9. Backoff schedule: the sleep after failed attempt k (from 0) is 2^k
\* seconds, after a server error and after a transport error alike; a sleep is
\* taken only between two attempts, and none follows the last attempt.
C9_Backoff ==
    \A p \in Workers :
        LET t == trace[p] IN
        /\ \A k \in 1..Len(sleeps[p]) :
              /\ sleeps[p][k] = 2 ^ (k - 1)
              /\ k <= Len(posts[p])
              /\ posts[p][k] = TransportError \/ posts[p][k].status >= 500
        /\ Len(sleeps[p]) <= max_retries - 1
        /\ Count(t, "sleep") = Len(sleeps[p])
        /\ \A i \in 1..Len(t) :
              t[i] = "sleep" =>
                  /\ i > 1 /\ t[i - 1] = "post"
                  /\ i < Len(t) => t[i + 1] = "post"
        /\ pc[p] = "sleep" => Len(sleeps[p]) = Len(posts[p])
        /\ (Ended(p) /\ posts[p] # <<>>) => Len(sleeps[p]) = Len(posts[p]) - 1

C9_Witness ==
    /\ sleeps[1] = <<1, 2>>
    /\ posts[1][1].status = 503
    /\ posts[1][2] = TransportError
    /\ Len(posts[1]) = 3
    /\ Ended(1)

\* C10. Dispatch failure: when forward_to_backend raises, main answers 500 with
\* error.code internal_error, the fixed error.message and the request id as
\* error.request_id, and makes no cache write.
C10_DispatchFailure ==
    \A p \in Workers :
        Has(trace[p], "raise") =>
            /\ pc[p] = "done"
            /\ reply[p].status_code = 500
            /\ reply[p].body =
                 JDict([error |-> JDict([code |-> JStr("internal_error"),
                                         message |-> JStr("An internal error occurred"),
                                         request_id |-> JStr(request_id[p])])])
            /\ req[p].request_id # "" => request_id[p] = req[p].request_id
            /\ ~Has(trace[p], "set_cached_response")
            /\ ~Has(trace[p], "upsert_item")

C10_Witness ==
    /\ pc[1] = "done"
    /\ Has(trace[1], "raise")
    /\ req[1].request_id = ""
    /\ reply[1].status_code = 500

\* The reply r is the 400 invalid_request envelope with message m.
IsInvalidRequest(r, m) ==
    /\ r.status_code = 400
    /\ r.body = JDict([error |-> JDict([code |-> JStr("invalid_request"),
                                        message |-> JStr(m)])])

\* C11. Malformed body: when the request body is not parseable JSON, main
\* answers 400 with error.code invalid_request, and performs no validation, no
\* model selection, no cache lookup, no secret retrieval, no backend dispatch
\* and no cache write.
C11_MalformedBody ==
    \A p \in Workers :
        (pc[p] \notin {"idle", "parse"} /\ req[p].json = InvalidJson) =>
            /\ pc[p] = "done"
            /\ IsInvalidRequest(reply[p], "Invalid JSON in request body")
            /\ trace[p] = <<"get_json">>
            /\ posts[p] = <<>>
            /\ body[p] = JNull /\ selected_model[p] = JNull /\ cached[p] = JNull

\* A malformed body answered 400 while the store holds an entry.
C11_Witness ==
    /\ pc[1] = "done"
    /\ req[1].json = InvalidJson
    /\ reply[1].status_code = 400
    /\ store # {}

\* C12. Validation failure exit: whenever validate_chat_request rejects the
\* parsed body, main answers 400 with error.code invalid_request and the
\* validator's message; and whatever validate_chat_request raises, no model
\* selection, cache access or backend dispatch happens for that request.
C12_ValidationFailure ==
    \A p \in Workers :
        (pc[p] \notin {"idle", "parse", "validate"} /\ req[p].json # InvalidJson) =>
            LET e == validate_chat_request(req[p].json) IN
            /\ e.exc = "ValueError" => IsInvalidRequest(reply[p], e.msg)
            /\ e.exc # "none" =>
                  /\ pc[p] = "done"
                  /\ trace[p] = <<"get_json", "validate_chat_request">>
                  /\ posts[p] = <<>>
                  /\ selected_model[p] = JNull /\ cached[p] = JNull

\* test_api_missing_messages: the body without `messages`, rejected.
C12_Witness ==
    /\ pc[1] = "done"
    /\ req[1].json = NoMessagesBody
    /\ IsInvalidRequest(reply[1], "messages must be a non-empty list")
    /\ store # {}

\* C13. Client-caused failures are 400, not 500: every request whose body is
\* malformed or fails validation, a body that is no object or a `model` of a
\* wrong type included, ends in the 400 invalid_request exit; a 500 is answered
\* only once the dispatch has begun, or for a fault the content of the request
\* did not cause.
C13_ClientErrorsAre400 ==
    \A p \in Workers :
        pc[p] = "done" =>
            /\ ~Valid(req[p]) =>
                  /\ reply[p].status_code = 400
                  /\ reply[p].body.dict["error"].dict["code"] = JStr("invalid_request")
            /\ reply[p].status_code = 500 =>
                  \/ Has(trace[p], "forward_to_backend")
                  \/ Truthy(cached[p]) /\ Type(cached[p]) # "dict"

\* A JSON value: what json.dumps writes as well-formed JSON.
IsJson(x) == Type(x) \in {"null", "bool", "int", "float", "str", "list", "dict"}

\* The body b is an error envelope {"error": {"code", "message", ...}}.
IsEnvelope(b) ==
    /\ Type(b) = "dict"
    /\ DOMAIN b.dict = {"error"}
    /\ Type(b.dict["error"]) = "dict"
    /\ {"code", "message"} \subseteq DOMAIN b.dict["error"].dict
    /\ Type(b.dict["error"].dict["code"]) = "str"
    /\ Type(b.dict["error"].dict["message"]) = "str"

C15_Stamping ==
    \A p \in Workers :
        pc[p] = "done" =>
            LET h == reply[p].headers IN
            /\ {"X-Request-ID", "X-Cache", "X-Model", "X-Duration-Ms"} \subseteq DOMAIN h
            /\ req[p].request_id # "" => h["X-Request-ID"] = JStr(req[p].request_id)
            /\ h["X-Cache"] \in {JStr("HIT"), JStr("MISS")}
            /\ h["X-Model"] = selected_model[p]

\* The lookup of the invocation failed: no store is configured, or read_item
\* raised something other than not-found.
LookupFailed(t) ==
    /\ Has(t, "get_cached_response")
    /\ ~Has(t, "read_item") \/ NextIs(t, "read_item", "CosmosHttpResponseError")

\* The cache write of the invocation failed or was not possible.
WriteFailed(t) ==
    /\ Has(t, "set_cached_response")
    /\ ~Has(t, "upsert_item") \/ NextIs(t, "upsert_item", "CosmosHttpResponseError")

\* C16. Cache unavailability is non-fatal: when the cache lookup fails (no store
\* configured, store unreachable, read error) the request goes on to the
\* dispatch as on a miss; when the cache write fails the response obtained from
\* the backend is returned with status 200; and a request with a failed lookup
\* or write is answered with an error only when the dispatch itself raised.
C16_CacheFailureNonFatal ==
    \A p \in Workers :
        LET t == trace[p] IN
        /\ LookupFailed(t) =>
              /\ cached[p] = JNull
              /\ pc[p] = "dispatch" \/ Has(t, "forward_to_backend")
              /\ NextIs(t, "get_cached_response", "get_backend_url")
                    \/ NextIs(t, "CosmosHttpResponseError", "get_backend_url")
                    \/ pc[p] = "dispatch"
        /\ WriteFailed(t) =>
              /\ pc[p] = "done"
              /\ Stamped(reply[p], "MISS")
              /\ reply[p].body = response[p]
              /\ response[p] = posts[p][Len(posts[p])].body
        /\ ((LookupFailed(t) \/ WriteFailed(t)) /\ pc[p] = "done") =>
              IF Has(t, "raise") THEN reply[p].status_code = 500
              ELSE /\ Stamped(reply[p], "MISS")
                   /\ reply[p].body = response[p]

\* Lookup and write both fail against a configured store that holds the
\* entry; the backend's completion is answered 200.
C16_Witness ==
    /\ pc[1] = "done"
    /\ cosmos_account
    /\ NextIs(trace[1], "read_item", "CosmosHttpResponseError")
    /\ NextIs(trace[1], "upsert_item", "CosmosHttpResponseError")
    /\ read_item(body[1].dict) # {}
    /\ Stamped(reply[1], "MISS")
    /\ reply[1].body = Completion

\* The items the store holds under the key and partition of request b,
\* expired ones included.
Held(b) ==
    {i \in store : i.id = _generate_cache_key(b) /\ i.modelId = partition_key(b)}

\* C17. TTL expiry: an entry written at time t with ttl 3600 is never returned
\* by a lookup made later than t + 3600 seconds, though the store still holds
\* it; a lookup that finds only such entries ends as a miss.
C17_TTLExpiry ==
    \A p \in Workers :
        LET t == trace[p] IN
        /\ \A i \in store : i.ttl = 3600
        /\ LookupFound(t) =>
              \E i \in Held(body[p].dict) : now <= i.created_at + 3600
        /\ (/\ pc[p] \in {"dispatch", "attempt", "sleep", "returned"}
            /\ Has(t, "read_item")
            /\ \A i \in Held(body[p].dict) : now > i.created_at + 3600) =>
              /\ cached[p] = JNull
              /\ ~LookupFound(t)

\* The lookup of a request whose entry was written 3601 seconds before ends
\* as a miss.
C17_Witness ==
    /\ pc[1] = "returned"
    /\ NextIs(trace[1], "read_item", "CosmosResourceNotFoundError")
    /\ \E i \in Held(body[1].dict) : now = i.created_at + 3601
    /\ cached[1] = JNull

\* The catalog ids, as JSON strings.
Catalog == {JStr(m) : m \in ModelIds}

\* C20. Resolved model is a catalog model: for every request that passes
\* validate_chat_request, the model select_model produces, which is put in the
\* forwarded body, hashed in the fingerprint, used as cache partition and sent
\* as X-Model, is one of the catalog ids; and a request whose `model` is
\* present, is not "auto" and is not in the catalog is rejected by the validator.
C20_CatalogModel ==
    \A p \in Workers :
        /\ Has(trace[p], "select_model") =>
              /\ selected_model[p] \in Catalog
              /\ body[p].dict["model"] \in Catalog
              /\ partition_key(body[p].dict) \in Catalog
              /\ _generate_cache_key(body[p].dict).model \in Catalog
              /\ reply[p].status_code = 200 => reply[p].headers["X-Model"] \in Catalog
        /\ (/\ pc[p] \notin {"idle", "parse", "validate"}
            /\ Type(req[p].json) = "dict"
            /\ "model" \in DOMAIN req[p].json.dict
            /\ req[p].json.dict["model"] \notin Catalog \cup {JStr("auto")}) =>
              /\ ~Has(trace[p], "select_model")
              /\ pc[p] = "done"

\* The fields of the canonical subset.
Canonical ==
    {"model", "messages", "temperature", "max_tokens", "top_p", "frequency_penalty",
     "presence_penalty", "stop", "functions", "tools"}

\* The canonical field k of request a, resolved: its value, or the default of
\* the field when the request has none.
Resolved(a, k) ==
    CASE k \in {"temperature", "top_p"} -> Get(a, k, JFloat(100))
      [] k = "max_tokens" -> Get(a, k, JInt(256))
      [] k \in {"frequency_penalty", "presence_penalty"} -> Get(a, k, JFloat(0))
      [] OTHER -> Get(a, k, JNull)

\* Workers p and q have each called the cache with a request.
BothCalled(p, q) == Type(body[p]) = "dict" /\ Type(body[q]) = "dict"

\* C18. Fingerprint determinism: two requests whose resolved canonical fields
\* are equal get the same key from _generate_cache_key, whether an optional
\* field was left out or given with its default value.
C18_KeyDeterminism ==
    \A p, q \in Workers :
        (/\ BothCalled(p, q)
         /\ \A k \in Canonical :
               PyEq(Resolved(body[p].dict, k), Resolved(body[q].dict, k))) =>
            _generate_cache_key(body[p].dict) = _generate_cache_key(body[q].dict)

\* C19. Fingerprint independence from non-canonical fields: two requests that
\* agree on every field of the canonical subset get the same key, whatever
\* their other fields (`stream`, `user`) hold; an entry stored for one is the
\* entry looked up for the other.
C19_KeyIndependence ==
    \A p, q \in Workers :
        (/\ BothCalled(p, q)
         /\ \A k \in Canonical :
               /\ k \in DOMAIN body[p].dict <=> k \in DOMAIN body[q].dict
               /\ k \in DOMAIN body[p].dict => body[p].dict[k] = body[q].dict[k]) =>
            /\ _generate_cache_key(body[p].dict) = _generate_cache_key(body[q].dict)
            /\ read_item(body[p].dict) = read_item(body[q].dict)
            /\ LookupFound(trace[q]) =>
                  \E i \in read_item(body[p].dict) : cached[q] = i.response

\* The entry stored for KeyBody is returned to the lookup of the request that
\* adds `stream` and `user` to it.
C19_Witness ==
    /\ body[1] = KeyBody
    /\ WriteStored(trace[1])
    /\ Type(body[2]) = "dict"
    /\ "user" \in DOMAIN body[2].dict
    /\ LookupFound(trace[2])
    /\ cached[2] = Completion

\* C23. Miss path relays the backend body: when the request was dispatched (a
\* cache miss, or a streamed request) and the dispatcher returned a body, main
\* answers 200 with X-Cache: MISS and that body, with no `_cached` and no other
\* field added.
C23_MissRelaysBody ==
    \A p \in Workers :
        (pc[p] = "done" /\ Has(trace[p], "forward_to_backend") /\ ~Has(trace[p], "raise")) =>
            /\ Stamped(reply[p], "MISS")
            /\ response[p] = posts[p][Len(posts[p])].body
            /\ reply[p].body = response[p]
            /\ DOMAIN reply[p].body.dict = DOMAIN posts[p][Len(posts[p])].body.dict

\* test_api_valid_request: the fixture request, dispatched and answered with
\* the completion of the backend.
C23_Witness ==
    /\ pc[1] = "done"
    /\ req[1].json = FixtureBody
    /\ Stamped(reply[1], "MISS")
    /\ reply[1].body = Completion

\* C25. Only successful responses are cached: set_cached_response is called
\* only with a body the backend returned with HTTP 200, and the store never
\* holds the body of a 4xx or 5xx reply.
C25_OnlySuccessCached ==
    /\ \A p \in Workers :
          Has(trace[p], "set_cached_response") => posts[p][Len(posts[p])].status = 200
    /\ \A i \in store : i.response \notin {ClientErrorBody, ServerErrorBody}

\* C29. One resolved model per request: once the model is selected, the same
\* id is the `model` of the body forwarded to the backend (never "auto"), the
\* `model` hashed in the key, the partition of the cache lookup and of the
\* cache write, and the value of X-Model.
C29_OneResolvedModel ==
    /\ \A i \in store : i.modelId = i.id.model
    /\ \A p \in Workers :
          Has(trace[p], "select_model") =>
              /\ selected_model[p] # JStr("auto")
              /\ body[p].dict["model"] = selected_model[p]
              /\ _generate_cache_key(body[p].dict).model = selected_model[p]
              /\ partition_key(body[p].dict) = selected_model[p]
              /\ reply[p].status_code = 200 =>
                    reply[p].headers["X-Model"] = selected_model[p]
              /\ (pc[p] = "done" /\ WriteStored(trace[p])) =>
                    \E i \in store : /\ i.modelId = selected_model[p]
                                     /\ i.id.model = selected_model[p]
                                     /\ i.response = response[p]

\* A request without `model`: the selected phi-3-mini is in the reply and on
\* the stored entry.
C29_Witness ==
    /\ pc[1] = "done"
    /\ req[1].json = AutoBody
    /\ WriteStored(trace[1])
    /\ reply[1].headers["X-Model"] = JStr("phi-3-mini")
    /\ \E i \in store : i.modelId = JStr("phi-3-mini") /\ i.response = reply[1].body

\* The step serves the invocation on p from the cache.
ServesHit(p) ==
    /\ pc[p] = "cache_check"
    /\ pc'[p] = "done"
    /\ reply'[p].status_code = 200

\* C30. A cache HIT leaves the store unchanged: the step that serves a request
\* from the cache writes nothing; the entry it read has the same response (no
\* `_cached` in it), creation time and ttl afterwards.
C30_HitLeavesStore ==
    [][\A p \in Workers :
          ServesHit(p) =>
              /\ store' = store
              /\ \E i \in store' :
                    /\ i.response = cached'[p]
                    /\ SetItem(i.response, "_cached", JBool(TRUE)) = reply'[p].body
                    /\ "_cached" \notin DOMAIN i.response.dict]_vars

\* A request answered HIT from the entry the request before it wrote.
C30_Witness ==
    /\ pc[1] = "done"
    /\ Stamped(reply[1], "HIT")
    /\ \E i \in Held(body[1].dict) :
          /\ i.created_at = prev.at
          /\ i.response = prev.reply.body
          /\ i.response = cached[1]

\* The invocation on p is under way.
InFlight(p) == pc[p] \notin {"idle", "done"}

\* C28. Dispatch terminates within the attempt bound: whatever the attempts end
\* in, forward_to_backend makes at most max_retries attempts and at most
\* max_retries - 1 sleeps, and every invocation of main that has begun reaches
\* its reply.
C28_DispatchTerminates ==
    /\ [](\A p \in Workers : /\ Len(posts[p]) <= max_retries
                             /\ Len(sleeps[p]) <= max_retries - 1
                             /\ Count(trace[p], "sleep") <= max_retries - 1)
    /\ \A p \in Workers : InFlight(p) ~> (pc[p] = "done" /\ reply[p] # NoReply)

\* A dispatch at its bound: three attempts and two sleeps, ended by a raise.
C28_Witness ==
    /\ pc[1] = "done"
    /\ Len(posts[1]) = max_retries
    /\ Len(sleeps[1]) = max_retries - 1
    /\ posts[1][1] = TransportError
    /\ posts[1][2].status = 503
    /\ posts[1][3] = TransportError

\* The validator has accepted the request of the invocation on p, or rejected it.
Accepted(p) == pc[p] = "select" \/ Has(trace[p], "select_model")
Rejected(p) == pc[p] = "done" /\ ~Has(trace[p], "select_model")

\* x is a JSON integer, or a JSON number, true and false being neither, with
\* lo <= x <= hi (in hundredths).
IntegerIn(x, lo, hi) == Type(x) = "int" /\ lo <= Num(x) /\ Num(x) <= hi
NumberIn(x, lo, hi) == Type(x) \in {"int", "float"} /\ lo <= Num(x) /\ Num(x) <= hi

\* The request d without the fields ks.
Without(d, ks) == JDict([k \in DOMAIN d.dict \ ks |-> d.dict[k]])

\* C21. Numeric range validation: of a request that is valid in everything
\* else, validate_chat_request accepts max_tokens exactly when it is an integer
\* in 1..4096, temperature exactly when it is a number in [0, 2] and top_p
\* exactly when it is a number in [0, 1]; a value of another type, a boolean
\* included, is rejected.
C21_NumericRanges ==
    \A p \in Workers :
        (/\ Accepted(p) \/ Rejected(p)
         /\ Type(req[p].json) = "dict"
         /\ validate_chat_request(Without(req[p].json, NumericFields)) = NoExc) =>
            LET r == req[p].json.dict IN
            Accepted(p) <=>
                /\ IntegerIn(Get(r, "max_tokens", JInt(256)), 100, 409600)
                /\ NumberIn(Get(r, "temperature", JFloat(100)), 0, 200)
                /\ NumberIn(Get(r, "top_p", JFloat(100)), 0, 100)

\* m is a valid message: an object with `role` and `content`, a role of the
\* four, a string content.
ValidMessage(m) ==
    /\ Type(m) = "dict"
    /\ {"role", "content"} \subseteq DOMAIN m.dict
    /\ m.dict["role"] \in {JStr(r) : r \in Roles}
    /\ Type(m.dict["content"]) = "str"

\* The error messages that name message i (from 0).
Naming(i) ==
    {"message " \o ToString(i) \o " must be a dictionary",
     "message " \o ToString(i) \o " must have 'role' and 'content' fields",
     "message " \o ToString(i) \o " has invalid role",
     "message " \o ToString(i) \o " content must be a string"}

AutoRouted(p) ==
    /\ Has(trace[p], "select_model")
    /\ Get(req[p].json.dict, "model", JStr("auto")) = JStr("auto")

\* Total content characters div 4, and the number of the seven keywords in the
\* contents, of the request r.
EstimatedTokens(r) ==
    LET ms == r.json.dict["messages"].list
    IN SumSeq([i \in 1..Len(ms) |-> ms[i].dict["content"].text.chars]) \div 4
Score(r) ==
    LET ms == r.json.dict["messages"].list
    IN Cardinality({t \in {"function", "class", "import", "def", "api", "database",
                           "algorithm"} :
                      \E i \in 1..Len(ms) : t \in ms[i].dict["content"].text.terms})

\* C22. Model selection decision table: for model "auto" or no model, the
\* router chooses mixtral-8x7b if estimated_tokens > 4000 or score > 2,
\* otherwise llama-3-70b if estimated_tokens > 2000 or score > 0, otherwise
\* phi-3-mini; the thresholds are strict.
C22_DecisionTable ==
    \A p \in Workers :
        AutoRouted(p) =>
            LET t == EstimatedTokens(req[p])
                c == Score(req[p])
            IN selected_model[p] =
                 IF t > 4000 \/ c > 2 THEN JStr("mixtral-8x7b")
                 ELSE IF t > 2000 \/ c > 0 THEN JStr("llama-3-70b")
                 ELSE JStr("phi-3-mini")

\* 400 characters in two messages holding "function" and "api": score 2, the
\* mid-tier model.
C22_Witness ==
    /\ AutoRouted(1)
    /\ Len(req[1].json.dict["messages"].list) = 2
    /\ EstimatedTokens(req[1]) = 100
    /\ Score(req[1]) = 2
    /\ selected_model[1] = JStr("llama-3-70b")

\* C26. Token budget holds for the model actually used: for a request with no
\* model or model "auto" that passes validation, the estimated token count is
\* at most the context_length of the model the router chooses.
C26_TokenBudget ==
    \A p \in Workers :
        AutoRouted(p) =>
            /\ selected_model[p] \in Catalog
            /\ EstimatedTokens(req[p]) <= context_length(selected_model[p].str)

\* 16000 characters and no keyword: 4000 estimated tokens, for the mid-tier
\* model and its ceiling of 8192.
C26_Witness ==
    /\ AutoRouted(1)
    /\ EstimatedTokens(req[1]) = 4000
    /\ Score(req[1]) = 0
    /\ selected_model[1] = JStr("llama-3-70b")

\* The step is the cache write of the invocation on p, taken by the store.
Writes(p) ==
    /\ pc[p] = "returned"
    /\ pc'[p] = "done"
    /\ WriteStored(trace'[p])

Derived(name) ==
    LET spelled == ("-" :> "_") @@ ("a" :> "A") @@ ("c" :> "C") @@ ("e" :> "E")
                   @@ ("i" :> "I") @@ ("k" :> "K") @@ ("l" :> "L") @@ ("n" :> "N")
                   @@ ("r" :> "R") @@ ("s" :> "S") @@ ("t" :> "T") @@ ("v" :> "V")
                   @@ ("y" :> "Y")
    IN [i \in DOMAIN name |->
           IF name[i] \in DOMAIN spelled THEN spelled[name[i]] ELSE name[i]]

\* What the last call of get_secret returned and left in the memo.
Retrieved ==
    /\ ~secret.raised
    /\ (secret.vault = "read") =>
           (/\ secret.name \in DOMAIN _secrets_cache
            /\ _secrets_cache[secret.name] = secret.value)
    /\ (secret.vault \in {"unconfigured", "failed"}) =>
           (/\ secret.value = (IF Derived(secret.name) \in DOMAIN secret.environ
                               THEN JStr(secret.environ[Derived(secret.name)])
                               ELSE JNull)
            /\ secret.name \notin DOMAIN _secrets_cache)
    /\ (secret.vault = "unconfigured") => (_initialized /\ ~_client)

\* C31. Secret retrieval with fallback and memoization: once a vault read of
\* a name has succeeded its value is memoized, and get_secret of a memoized
\* name returns the memoized value without contacting the vault; with no
\* vault configured or a failed vault read, get_secret returns the value of
\* the environment variable derived from the name, or None, does not raise,
\* and memoizes nothing for the name.
C31_SecretRetrieval ==
    /\ []Retrieved
    /\ [][\A name \in DOMAIN _secrets_cache :
             (secret' # secret /\ secret'.name = name) =>
                 (/\ secret'.vault = "memo"
                  /\ secret'.value = _secrets_cache[name]
                  /\ _secrets_cache' = _secrets_cache)]_vars
    /\ [][(secret'.vault \in {"unconfigured", "failed"}) =>
             (_secrets_cache' = _secrets_cache)]_vars

\* A name whose vault read failed with the derived variable set, after a read
\* of another name succeeded and was memoized.
C31_Witness ==
    /\ secret.name = <<"k", "-">>
    /\ secret.vault = "failed"
    /\ secret.value = JStr("e2")
    /\ InternalServiceKey \in DOMAIN _secrets_cache
    /\ <<"k", "_">> \in DOMAIN _secrets_cache

\* The statuses of the dependency checks in the body of a readiness reply.
Statuses == {health.body.dict.checks.dict[k].dict.status.str :
                k \in DOMAIN health.body.dict.checks.dict}

\* The reply is status_code with the overall status `status`.
Overall(status_code, status) ==
    /\ health.status_code = status_code
    /\ health.body.dict.status = JStr(status)

\* C32. Health endpoint aggregation: a `ready` reply carries the checks
\* keyvault, cosmos and inference_backend and is 503 unhealthy if one of them is
\* unhealthy, otherwise 200 degraded if one is degraded, otherwise 200 healthy
\* (skip counting as healthy); `live` and `startup` replies are 200 healthy with
\* no dependency check run; any other check_type is answered 400 with an
\* `error` body.
C32_HealthAggregation ==
    /\ health.check_type = JStr("ready") =>
           /\ DOMAIN health.body.dict.checks.dict =
                  {"keyvault", "cosmos", "inference_backend"}
           /\ Statuses \subseteq {"healthy", "degraded", "unhealthy", "skip"}
           /\ IF "unhealthy" \in Statuses THEN Overall(503, "unhealthy")
              ELSE IF "degraded" \in Statuses THEN Overall(200, "degraded")
              ELSE Overall(200, "healthy")
    /\ health.check_type \in {JStr("live"), JStr("startup")} =>
           /\ Overall(200, "healthy")
           /\ health.ran = {}
    /\ (/\ health # NoHealth
        /\ health.check_type \notin {JNull, JStr("live"), JStr("ready"), JStr("startup")}) =>
           /\ health.status_code = 400
           /\ "error" \in DOMAIN health.body.dict
           /\ health.ran = {}

\* A readiness reply with the vault skipped, the database unhealthy and the
\* backend degraded.
C32_Witness ==
    /\ health.check_type = JStr("ready")
    /\ health.status_code = 503
    /\ health.ran = {"check_keyvault", "check_cosmos", "check_inference_backend"}
    /\ health.body.dict.checks.dict.keyvault.dict.status = JStr("skip")
    /\ health.body.dict.checks.dict.cosmos.dict.status = JStr("unhealthy")
    /\ health.body.dict.checks.dict.inference_backend.dict.status = JStr("degraded")

====
